---- MODULE Spec2Model ----
(***************************************************************************)
(* Model of the workout-log video subsystem of wlogger-backend:            *)
(* src/src/controllers/workoutLogsController.ts behind the routes of       *)
(* src/unnamed/part_001 (routes/workoutLogRoutes).                         *)
(*                                                                         *)
(* Persistent state: the user's workoutLogs list, the workout log         *)
(* documents and the S3 bucket.  One request is handled at a time; the     *)
(* steps inside a request (the upload middleware's S3 writes, the three    *)
(* operations destroy starts under Promise.all, the stream of              *)
(* showSetVideo) are separate actions and each may fail.                   *)
(*                                                                         *)
(* Representation.  A file name or an S3 object name is the sequence of    *)
(* its dot-free pieces and its dots: "e1.s1.mp4" is                        *)
(* <<"e1", ".", "s1", ".", "mp4">>.  A Range header is a sequence of       *)
(* characters with "bytes=" as one character.  JavaScript's undefined,     *)
(* where it ends up in a template string, is the piece "undefined".  An    *)
(* optional value is a set with at most one element.                       *)
(*                                                                         *)
(* Further specifications: SpecRange (the Range header of showSetVideo as  *)
(* a function of the header and the video size), SpecAuth (login and       *)
(* googleLogin of src/unnamed/part_002 over a User collection) and         *)
(* SpecOverlap (destroy requests of one user in flight at the same time).  *)
(***************************************************************************)
EXTENDS Integers, Sequences, FiniteSets, TLC

\* ------------------------------------------------------------------ bounds

\* Workout logs ever created.
MaxLogs == 2
\* Requests handled.
MaxRequests == 3
\* Files in one videoUpload request.
MaxFiles == 2
\* Largest formVideo.size and range number of the Range-header specification.
MaxSize == 11

Users == {"u1"}

\* The exercises and sets of a created log (req.body of create).
LogShape == [e \in {"e1"} |-> {"s1", "s2"}]

\* The uploaded files a request may carry: originalname and size.
FileInputs ==
    { [originalname |-> <<"e1", ".", "s1", ".", "mp4">>, size |-> 3],
      [originalname |-> <<"e1", ".", "s1", ".", "mov">>, size |-> 2],
      [originalname |-> <<"e1", ".", "s2", ".", "mp4">>, size |-> 2],
      [originalname |-> <<"e1", ".", "s9", ".", "mp4">>, size |-> 1],
      [originalname |-> <<"bad", ".", "name">>, size |-> 1] }

Batches == UNION { [1..n -> FileInputs] : n \in 1..MaxFiles }

\* ------------------------------------------------------------- pure helpers

\* String.prototype.split("."): the pieces between the dots, "" for an empty one.
RECURSIVE SplitFrom(_, _, _)
SplitFrom(name, cur, acc) ==
    IF name = <<>> THEN Append(acc, cur)
    ELSE IF Head(name) = "." THEN SplitFrom(Tail(name), "", Append(acc, cur))
    ELSE SplitFrom(Tail(name), Head(name), acc)

SplitDot(name) == SplitFrom(name, "", <<>>)

\* Array destructuring: a missing element is undefined.
Part(parts, i) == IF i <= Len(parts) THEN parts[i] ELSE "undefined"

\* workoutLog.exercises.find(e)?.sets.find(s)
HasSet(doc, e, s) == e \in DOMAIN doc /\ s \in DOMAIN doc[e]

FindSetVideo(doc, e, s) == IF HasSet(doc, e, s) THEN doc[e][s] ELSE {}

\* `${userId}/${workoutLogId}/${exerciseId}.${setId}.${fileExtension}`
videoKey(u, l, e, s, ext) == <<u, l, <<e, ".", s, ".", ext>> >>

\* The key the upload middleware stores a file under.
UploadKey(u, l, file) == <<u, l, file.originalname>>

\* The value of an optional that is present.
The(opt) == CHOOSE v \in opt : TRUE

\* The sets of a document that carry formVideo.
SetsWithVideo(doc) ==
    { p \in UNION { {e} \X DOMAIN doc[e] : e \in DOMAIN doc } : doc[p[1]][p[2]] # {} }

\* deleteAllSetVideos: the keys derived from every set that carries formVideo.
DerivedKeys(u, l, doc) ==
    { videoKey(u, l, p[1], p[2], The(doc[p[1]][p[2]]).extension) : p \in SetsWithVideo(doc) }

\* workoutLog.generateSetVideoDisplayFileName(exerciseId, setId)
DisplayFileName(l, e, s) == <<"video", l, e, s>>

\* res.contentType(extension): the MIME type of the extension.
MimeType(ext) ==
    CASE ext = "mp4" -> "video/mp4"
      [] ext = "mov" -> "video/quicktime"
      [] OTHER -> "application/octet-stream"

\* Array.prototype.find over the ids of a list: whether the id is found.
HasId(list, id) == \E i \in 1..Len(list) : list[i] = id

\* A faulty variant of FindIndex: the position is counted from one.
FindIndexFromOne(list, id) ==
    IF \E i \in 1..Len(list) : list[i] = id
    THEN CHOOSE i \in 1..Len(list) : list[i] = id /\ \A j \in 1..(i - 1) : list[j] # id
    ELSE -1

\* Array.prototype.findIndex, 0-based, -1 when nothing matches.
FindIndex(list, id) ==
    IF \E i \in 1..Len(list) : list[i] = id
    THEN (CHOOSE i \in 1..Len(list) : list[i] = id /\ \A j \in 1..(i - 1) : list[j] # id) - 1
    ELSE -1

\* Array.prototype.splice(start, 1): a negative start counts from the end.
Splice1(list, start) ==
    LET n == Len(list)
        from == IF start < 0 THEN (IF n + start < 0 THEN 0 ELSE n + start)
                ELSE (IF start > n THEN n ELSE start)
    IN  IF from >= n THEN list
        ELSE SubSeq(list, 1, from) \o SubSeq(list, from + 2, n)

\* ------------------------------------------------- the Range header (pure)

\* A JavaScript number: an integer or NaN.
Num(v) == [nan |-> FALSE, v |-> v]
NaN == [nan |-> TRUE, v |-> 0]
Plus(a, b) == IF a.nan \/ b.nan THEN NaN ELSE Num(a.v + b.v)
Minus(a, b) == IF a.nan \/ b.nan THEN NaN ELSE Num(a.v - b.v)

DigitChars == <<"0", "1", "2", "3", "4", "5", "6", "7", "8", "9">>
IsDigit(c) == \E d \in 1..10 : DigitChars[d] = c
DigitValue(c) == (CHOOSE d \in 1..10 : DigitChars[d] = c) - 1

\* parseInt(str, 10): the leading digits, NaN when there is none.
RECURSIVE ParseDigits(_, _)
ParseDigits(str, acc) ==
    IF str = <<>> \/ ~IsDigit(Head(str)) THEN acc
    ELSE ParseDigits(Tail(str), acc * 10 + DigitValue(Head(str)))

parseInt(str) ==
    IF str = <<>> \/ ~IsDigit(Head(str)) THEN NaN ELSE Num(ParseDigits(str, 0))

\* range.replace(/bytes=/, ""): the first "bytes=" is removed.
RECURSIVE StripBytes(_)
StripBytes(str) ==
    IF str = <<>> THEN <<>>
    ELSE IF Head(str) = "bytes=" THEN Tail(str)
    ELSE <<Head(str)>> \o StripBytes(Tail(str))

\* String.prototype.split("-")
RECURSIVE SplitDashFrom(_, _, _)
SplitDashFrom(str, cur, acc) ==
    IF str = <<>> THEN Append(acc, cur)
    ELSE IF Head(str) = "-" THEN SplitDashFrom(Tail(str), <<>>, Append(acc, cur))
    ELSE SplitDashFrom(Tail(str), Append(cur, Head(str)), acc)

SplitDash(str) == SplitDashFrom(str, <<>>, <<>>)

NoHeaders == [h \in {} |-> 0]
NoResponse == [status |-> 0, body |-> "none", headers |-> NoHeaders]
Response(status, body) == [status |-> status, body |-> body, headers |-> NoHeaders]

\* A faulty variant of WriteHead: the headers given replace the ones already set.
WriteHeadReplaces(r, status, headers) ==
    [r EXCEPT !.status = status, !.headers = headers]

\* res.writeHead(status, headers): merged over the headers already set,
\* the ones given here taking precedence.
WriteHead(r, status, headers) ==
    [r EXCEPT !.status = status, !.headers = headers @@ r.headers]

\* A faulty variant of writeVideoStreamHeaders: chunkSize is rangeEnd - rangeStart.
writeVideoStreamHeadersOffByOne(r, totalFileSize, range) ==
    LET bytes == SplitDash(StripBytes(range))
        rangeStart == parseInt(bytes[1])
        rangeEnd == IF Len(bytes) >= 2 /\ bytes[2] # <<>>
                    THEN parseInt(bytes[2])
                    ELSE Num(totalFileSize - 1)
        chunkSize == Minus(rangeEnd, rangeStart)
    IN  [r EXCEPT !.status = 206,
                  !.headers =
                    [h \in {"Accept-Ranges", "Content-Length", "Content-Range", "Content-Disposition"} |->
                        CASE h = "Accept-Ranges" -> "bytes"
                          [] h = "Content-Length" -> chunkSize
                          [] h = "Content-Range" ->
                                [start |-> rangeStart, end |-> rangeEnd, total |-> totalFileSize]
                          [] OTHER -> [type |-> "inline", filename |-> <<>>]] @@ r.headers]

\* writeVideoStreamHeaders(res, totalFileSize, range)
writeVideoStreamHeaders(r, totalFileSize, range) ==
    LET bytes == SplitDash(StripBytes(range))
        rangeStart == parseInt(bytes[1])
        rangeEnd == IF Len(bytes) >= 2 /\ bytes[2] # <<>>
                    THEN parseInt(bytes[2])
                    ELSE Num(totalFileSize - 1)
        chunkSize == Plus(Minus(rangeEnd, rangeStart), Num(1))
    IN  WriteHead(r, 206,
            [h \in {"Accept-Ranges", "Content-Length", "Content-Range", "Content-Disposition"} |->
                CASE h = "Accept-Ranges" -> "bytes"
                  [] h = "Content-Length" -> chunkSize
                  [] h = "Content-Range" ->
                        [start |-> rangeStart, end |-> rangeEnd, total |-> totalFileSize]
                  [] OTHER -> [type |-> "inline", filename |-> <<>>]])

\* A faulty variant of StreamHeaders: writeVideoStreamHeaders is called whether or not
\* the request has a Range header.
StreamHeadersAlwaysRange(l, e, s, video, range) ==
    [status |-> 206, body |-> "video",
     headers |-> [h \in {"Content-Disposition", "Content-Type", "Accept-Ranges"} |->
                    CASE h = "Content-Disposition" -> [type |-> "inline", filename |-> <<>>]
                      [] h = "Content-Type" -> MimeType(video.extension)
                      [] OTHER -> "bytes"]]

\* showSetVideo from res.attachment to the Range branch: the response the
\* handler has prepared when it opens the stream.
StreamHeaders(l, e, s, video, range) ==
    LET r0 == [status |-> 200, body |-> "video",
               headers |-> [h \in {"Content-Disposition", "Content-Type"} |->
                    IF h = "Content-Disposition"
                    THEN [type |-> "attachment", filename |-> DisplayFileName(l, e, s)]
                    ELSE MimeType(video.extension)]]
    IN  IF range # <<>> THEN writeVideoStreamHeaders(r0, video.size, range) ELSE r0

\* -------------------------------------------------------------------- state

VARIABLES
    users,      \* User.workoutLogs of every user: a list of log ids, newest first
    logs,       \* the WorkoutLog collection: id -> exercise -> set -> formVideo
    blobs,      \* the S3 bucket: key -> size of the object
    nLogs,      \* log ids handed out so far
    nReq,       \* requests started so far
    pc,         \* where the request being handled stands
    req,        \* the request being handled, or the last one handled
    pending,    \* the operations of destroy's Promise.all still running
    failed,     \* whether an operation of destroy's Promise.all has rejected
    res,        \* the response of the request (status 0: none sent)
    gets,       \* the S3.getObject calls of the request
    src,        \* the read stream of the request: "none", "open" or "destroyed"
    phase,      \* the state of a showSetVideo request
    clean,      \* no request so far was left unanswered or answered with an error
    rng,        \* the Range-header specification: input and response
    auth,       \* the authController specification: the User collection,
                \* the request and its response
    ov          \* the overlapping-destroy specification: the user's stored
                \* list, the logs and the requests in flight

mainVars == <<users, logs, blobs, nLogs, nReq, pc, req, pending, failed, res, gets, src, phase, clean>>
vars == <<users, logs, blobs, nLogs, nReq, pc, req, pending, failed, res, gets, src, phase, clean, rng, auth, ov>>

NoDoc == [e \in {} |-> 0]
NoReq ==
    [kind |-> "none", user |-> "", log |-> 0, userLogs |-> <<>>, doc |-> NoDoc,
     files |-> <<>>, i |-> 0, e |-> "", s |-> "", range |-> <<>>]
NoRng == [total |-> 0, range |-> <<>>, done |-> FALSE, res |-> NoResponse, sent |-> 0]

MainInit ==
    /\ users = [u \in Users |-> <<>>]
    /\ logs = [l \in {} |-> NoDoc]
    /\ blobs = [k \in {} |-> 0]
    /\ nLogs = 0
    /\ nReq = 0
    /\ pc = "idle"
    /\ req = NoReq
    /\ pending = {}
    /\ failed = FALSE
    /\ res = NoResponse
    /\ gets = {}
    /\ src = "none"
    /\ phase = "none"
    /\ clean = TRUE

NoAuthRequest ==
    [kind |-> "none", email |-> "", password |-> "", idToken |-> "", saved |-> FALSE,
     before |-> <<>>]
NoAuthResponse == [status |-> 0, message |-> "", user |-> "", cookie |-> 0]
NoAuth == [users |-> <<>>, req |-> NoAuthRequest, res |-> NoAuthResponse]

NoOvRequest ==
    [pc |-> "idle", log |-> 0, loaded |-> <<>>, workoutLogs |-> <<>>,
     pending |-> {}, failed |-> FALSE, status |-> 0]
NoOv == [list |-> <<>>, logs |-> {}, r |-> <<>>]

Init == MainInit /\ rng = NoRng /\ auth = NoAuth /\ ov = NoOv

\* validateWorkoutLogId, setCurrentWorkoutLog: the log exists and is the caller's.
ValidLog(u, l) == l \in DOMAIN logs /\ \E i \in 1..Len(users[u]) : users[u][i] = l

\* The request record of a request that enters its handler chain: currentUser
\* and currentWorkoutLog are read from the database here.
Request(kind, u, l) ==
    [NoReq EXCEPT !.kind = kind, !.user = u, !.log = l, !.userLogs = users[u],
                  !.doc = IF l \in DOMAIN logs THEN logs[l] ELSE NoDoc]

\* What a new request leaves of the previous one.
Fresh ==
    /\ gets' = {}
    /\ src' = "none"
    /\ phase' = "none"
    /\ pending' = {}
    /\ failed' = FALSE

NewDoc == [e \in DOMAIN LogShape |-> [s \in LogShape[e] |-> {}]]

\* ------------------------------------------------------------------- create

\* WorkoutLog.create(req.body) rejects the body: 406, nothing is stored.
CreateInvalid(u) ==
    /\ pc = "idle"
    /\ nReq < MaxRequests
    /\ req' = Request("create", u, 0)
    /\ res' = Response(406, "error")
    /\ nReq' = nReq + 1
    /\ Fresh
    /\ clean' = FALSE
    /\ UNCHANGED <<users, logs, blobs, nLogs, pc, rng, auth, ov>>

\* WorkoutLog.create, unshift, user.save(): 201 with the log.
CreateSaved(u) ==
    /\ pc = "idle"
    /\ nReq < MaxRequests
    /\ nLogs < MaxLogs
    /\ LET l == nLogs + 1 IN
        /\ logs' = (l :> NewDoc) @@ logs
        /\ users' = [users EXCEPT ![u] = <<l>> \o @]
        /\ req' = [Request("create", u, l) EXCEPT !.userLogs = <<l>> \o @, !.doc = NewDoc]
        /\ nLogs' = l
    /\ res' = Response(201, "log")
    /\ nReq' = nReq + 1
    /\ Fresh
    /\ UNCHANGED <<blobs, pc, clean, rng, auth, ov>>

\* WorkoutLog.create succeeds and user.save() rejects: the catch answers 406.
CreateSaveFails(u) ==
    /\ pc = "idle"
    /\ nReq < MaxRequests
    /\ nLogs < MaxLogs
    /\ LET l == nLogs + 1 IN
        /\ logs' = (l :> NewDoc) @@ logs
        /\ req' = [Request("create", u, l) EXCEPT !.userLogs = <<l>> \o @, !.doc = NewDoc]
        /\ nLogs' = l
    /\ res' = Response(406, "error")
    /\ nReq' = nReq + 1
    /\ Fresh
    /\ clean' = FALSE
    /\ UNCHANGED <<users, blobs, pc, rng, auth, ov>>

\* -------------------------------------------------------------- videoUpload

\* POST /:id/videoUpload passes validateWorkoutLogId and setCurrentWorkoutLog
\* and enters the upload middleware.
UploadBegin(u, l, files) ==
    /\ pc = "idle"
    /\ nReq < MaxRequests
    /\ ValidLog(u, l)
    /\ req' = [Request("upload", u, l) EXCEPT !.files = files, !.i = 1]
    /\ res' = NoResponse
    /\ pc' = "uploading"
    /\ nReq' = nReq + 1
    /\ Fresh
    /\ UNCHANGED <<users, logs, blobs, nLogs, clean, rng, auth, ov>>

\* S3WorkoutLogVideoUpload stores the next file of the batch.
UploadFileStored ==
    /\ pc = "uploading"
    /\ LET file == req.files[req.i] IN
        blobs' = (UploadKey(req.user, req.log, file) :> file.size) @@ blobs
    /\ req' = [req EXCEPT !.i = @ + 1]
    /\ pc' = IF req.i = Len(req.files) THEN "uploaded" ELSE "uploading"
    /\ UNCHANGED <<users, logs, nLogs, nReq, pending, failed, res, gets, src, phase, clean, rng, auth, ov>>

\* A faulty variant of UploadFileFails: the error is swallowed and the controller runs.
UploadFileFailsIgnored ==
    /\ pc = "uploading"
    /\ pc' = "uploaded"
    /\ UNCHANGED <<users, logs, blobs, nLogs, nReq, req, pending, failed, res, gets, src, phase, clean, rng, auth, ov>>

\* S3 rejects the next file: the middleware passes the error on, the
\* controller is not called and the error handler answers 500.
UploadFileFails ==
    /\ pc = "uploading"
    /\ res' = Response(500, "error")
    /\ pc' = "idle"
    /\ clean' = FALSE
    /\ UNCHANGED <<users, logs, blobs, nLogs, nReq, req, pending, failed, gets, src, phase, rng, auth, ov>>

\* The for loop of uploadSetVideo from file i on: the document it leaves, and
\* whether it threw (set is undefined: TypeError on set.formVideo = ...).
RECURSIVE AttachFiles(_, _, _)
AttachFiles(doc, files, i) ==
    IF i > Len(files) THEN [threw |-> FALSE, doc |-> doc]
    ELSE LET fileParts == SplitDot(files[i].originalname)
             exerciseId == Part(fileParts, 1)
             setId == Part(fileParts, 2)
             fileExtension == Part(fileParts, 3)
         IN  IF ~HasSet(doc, exerciseId, setId) THEN [threw |-> TRUE, doc |-> doc]
             ELSE AttachFiles(
                    [doc EXCEPT ![exerciseId][setId] =
                        {[size |-> files[i].size, extension |-> fileExtension]}],
                    files, i + 1)

\* uploadSetVideo: every file names a set, workoutLog.save() succeeds: 200.
UploadSetVideoSaved ==
    /\ pc = "uploaded"
    /\ LET out == AttachFiles(req.doc, req.files, 1) IN
        /\ ~out.threw
        /\ req.log \in DOMAIN logs
        /\ logs' = [logs EXCEPT ![req.log] = out.doc]
    /\ res' = Response(200, "empty")
    /\ pc' = "idle"
    /\ UNCHANGED <<users, blobs, nLogs, nReq, req, pending, failed, gets, src, phase, clean, rng, auth, ov>>

\* uploadSetVideo throws in the loop: the promise rejects, nothing is saved
\* and no response is sent.
UploadSetVideoThrows ==
    /\ pc = "uploaded"
    /\ AttachFiles(req.doc, req.files, 1).threw
    /\ pc' = "idle"
    /\ clean' = FALSE
    /\ UNCHANGED <<users, logs, blobs, nLogs, nReq, req, pending, failed, res, gets, src, phase, rng, auth, ov>>

\* uploadSetVideo: workoutLog.save() rejects: nothing is saved, no response.
UploadSetVideoSaveFails ==
    /\ pc = "uploaded"
    /\ ~AttachFiles(req.doc, req.files, 1).threw
    /\ pc' = "idle"
    /\ clean' = FALSE
    /\ UNCHANGED <<users, logs, blobs, nLogs, nReq, req, pending, failed, res, gets, src, phase, rng, auth, ov>>

\* ------------------------------------------------------------------ destroy

\* A faulty variant of DestroyBegin: the id is not spliced out of user.workoutLogs.
DestroyBeginNoSplice(u, l) ==
    /\ pc = "idle"
    /\ nReq < MaxRequests
    /\ ValidLog(u, l)
    /\ req' = Request("destroy", u, l)
    /\ res' = NoResponse
    /\ pc' = "destroying"
    /\ nReq' = nReq + 1
    /\ gets' = {}
    /\ src' = "none"
    /\ phase' = "none"
    /\ pending' = {"deleteAllSetVideos", "userSave", "logDelete"}
    /\ failed' = FALSE
    /\ UNCHANGED <<users, logs, blobs, nLogs, clean, rng, auth, ov>>

\* destroy up to Promise.all: findIndex, splice, and the three operations start.
DestroyBegin(u, l) ==
    /\ pc = "idle"
    /\ nReq < MaxRequests
    /\ ValidLog(u, l)
    /\ req' = [Request("destroy", u, l) EXCEPT
                    !.userLogs = Splice1(users[u], FindIndex(users[u], l))]
    /\ res' = NoResponse
    /\ pc' = "destroying"
    /\ nReq' = nReq + 1
    /\ gets' = {}
    /\ src' = "none"
    /\ phase' = "none"
    /\ pending' = {"deleteAllSetVideos", "userSave", "logDelete"}
    /\ failed' = FALSE
    /\ UNCHANGED <<users, logs, blobs, nLogs, clean, rng, auth, ov>>

Settle(op, ok) ==
    /\ pc = "destroying"
    /\ op \in pending
    /\ pending' = pending \ {op}
    /\ failed' = (failed \/ ~ok)

\* workoutLogToDelete.deleteAllSetVideos(user.id) resolves.
DestroyVideosDeleted ==
    /\ Settle("deleteAllSetVideos", TRUE)
    /\ LET gone == DerivedKeys(req.user, req.log, req.doc) IN
        blobs' = [k \in DOMAIN blobs \ gone |-> blobs[k]]
    /\ UNCHANGED <<users, logs, nLogs, nReq, pc, req, res, gets, src, phase, clean, rng, auth, ov>>

DestroyVideosFails ==
    /\ Settle("deleteAllSetVideos", FALSE)
    /\ UNCHANGED <<users, logs, blobs, nLogs, nReq, pc, req, res, gets, src, phase, clean, rng, auth, ov>>

\* user.save() resolves: the spliced list is stored.
DestroyUserSaved ==
    /\ Settle("userSave", TRUE)
    /\ users' = [users EXCEPT ![req.user] = req.userLogs]
    /\ UNCHANGED <<logs, blobs, nLogs, nReq, pc, req, res, gets, src, phase, clean, rng, auth, ov>>

DestroyUserSaveFails ==
    /\ Settle("userSave", FALSE)
    /\ UNCHANGED <<users, logs, blobs, nLogs, nReq, pc, req, res, gets, src, phase, clean, rng, auth, ov>>

\* workoutLogToDelete.delete() resolves: the record is gone.
DestroyLogDeleted ==
    /\ Settle("logDelete", TRUE)
    /\ logs' = [l \in DOMAIN logs \ {req.log} |-> logs[l]]
    /\ UNCHANGED <<users, blobs, nLogs, nReq, pc, req, res, gets, src, phase, clean, rng, auth, ov>>

DestroyLogDeleteFails ==
    /\ Settle("logDelete", FALSE)
    /\ UNCHANGED <<users, logs, blobs, nLogs, nReq, pc, req, res, gets, src, phase, clean, rng, auth, ov>>

\* Promise.all has resolved: res.json(workoutLogToDelete.id).
DestroyResponds ==
    /\ pc = "destroying"
    /\ pending = {}
    /\ ~failed
    /\ res' = Response(200, "id")
    /\ pc' = "idle"
    /\ UNCHANGED <<users, logs, blobs, nLogs, nReq, req, pending, failed, gets, src, phase, clean, rng, auth, ov>>

\* Promise.all has rejected: the handler's promise rejects, no response.
DestroyRejects ==
    /\ pc = "destroying"
    /\ pending = {}
    /\ failed
    /\ pc' = "idle"
    /\ clean' = FALSE
    /\ UNCHANGED <<users, logs, blobs, nLogs, nReq, req, pending, failed, res, gets, src, phase, rng, auth, ov>>

\* ---------------------------------------------------------- destroySetVideo

\* The set ids a request may name: one of the log's, or one it does not hold.
SetParams == {<<"e1", "s1">>, <<"e1", "s2">>, <<"e1", "s9">>, <<"e2", "s1">>}

\* workoutLog.deleteSetVideo(exerciseId, setId, userId): whether there was a
\* video to delete, and the bucket and the collection it leaves.
deleteSetVideo(u, l, e, s) ==
    IF FindSetVideo(logs[l], e, s) = {}
    THEN [deleted |-> FALSE, blobs |-> blobs, logs |-> logs]
    ELSE LET key == videoKey(u, l, e, s, The(logs[l][e][s]).extension)
         IN  [deleted |-> TRUE,
              blobs |-> [k \in DOMAIN blobs \ {key} |-> blobs[k]],
              logs |-> [logs EXCEPT ![l][e][s] = {}]]

\* A faulty variant of DestroySetVideoNothing: the result of deleteSetVideo is not
\* looked at and the handler answers 200 with {setId, exerciseId}.
DestroySetVideoNothingOk(u, l, e, s) ==
    /\ pc = "idle"
    /\ nReq < MaxRequests
    /\ ValidLog(u, l)
    /\ ~deleteSetVideo(u, l, e, s).deleted
    /\ req' = [Request("destroySetVideo", u, l) EXCEPT !.e = e, !.s = s]
    /\ res' = Response(200, "set")
    /\ nReq' = nReq + 1
    /\ Fresh
    /\ UNCHANGED <<users, logs, blobs, nLogs, pc, clean, rng, auth, ov>>

\* destroySetVideo, deleteSetVideo returns false: 404, empty body.
DestroySetVideoNothing(u, l, e, s) ==
    /\ pc = "idle"
    /\ nReq < MaxRequests
    /\ ValidLog(u, l)
    /\ ~deleteSetVideo(u, l, e, s).deleted
    /\ req' = [Request("destroySetVideo", u, l) EXCEPT !.e = e, !.s = s]
    /\ res' = Response(404, "empty")
    /\ nReq' = nReq + 1
    /\ Fresh
    /\ UNCHANGED <<users, logs, blobs, nLogs, pc, clean, rng, auth, ov>>

\* destroySetVideo, deleteSetVideo returns true: 200 with {setId, exerciseId}.
DestroySetVideoDeleted(u, l, e, s) ==
    /\ pc = "idle"
    /\ nReq < MaxRequests
    /\ ValidLog(u, l)
    /\ deleteSetVideo(u, l, e, s).deleted
    /\ blobs' = deleteSetVideo(u, l, e, s).blobs
    /\ logs' = deleteSetVideo(u, l, e, s).logs
    /\ req' = [Request("destroySetVideo", u, l) EXCEPT !.e = e, !.s = s]
    /\ res' = Response(200, "set")
    /\ nReq' = nReq + 1
    /\ Fresh
    /\ UNCHANGED <<users, nLogs, pc, clean, rng, auth, ov>>

\* destroySetVideo, deleteSetVideo rejects (the blob delete failed and nothing
\* was changed): the handler's promise rejects, no response.
DestroySetVideoFails(u, l, e, s) ==
    /\ pc = "idle"
    /\ nReq < MaxRequests
    /\ ValidLog(u, l)
    /\ FindSetVideo(logs[l], e, s) # {}
    /\ req' = [Request("destroySetVideo", u, l) EXCEPT !.e = e, !.s = s]
    /\ res' = NoResponse
    /\ nReq' = nReq + 1
    /\ Fresh
    /\ clean' = FALSE
    /\ UNCHANGED <<users, logs, blobs, nLogs, pc, rng, auth, ov>>

\* ------------------------------------------------------------- showSetVideo

\* The Range headers of the requests; <<>> is a request without one.
RangeInputs == { <<>>, <<"bytes=", "0", "-", "1">>, <<"bytes=", "1", "-">> }

\* GET /:id/exercises/:exerciseId/sets/:setId/video passes validateWorkoutLogId
\* and setCurrentWorkoutLog.
ShowBegin(u, l, e, s, range) ==
    /\ pc = "idle"
    /\ nReq < MaxRequests
    /\ ValidLog(u, l)
    /\ req' = [Request("show", u, l) EXCEPT !.e = e, !.s = s, !.range = range]
    /\ res' = NoResponse
    /\ pc' = "show"
    /\ nReq' = nReq + 1
    /\ gets' = {}
    /\ src' = "none"
    /\ phase' = "Validating"
    /\ pending' = {}
    /\ failed' = FALSE
    /\ UNCHANGED <<users, logs, blobs, nLogs, clean, rng, auth, ov>>

\* A faulty variant of ShowNotFound: res.json() without status(404).
ShowNotFoundNoStatus ==
    /\ pc = "show"
    /\ phase = "Validating"
    /\ FindSetVideo(req.doc, req.e, req.s) = {}
    /\ res' = Response(200, "empty")
    /\ phase' = "NotFound"
    /\ UNCHANGED <<users, logs, blobs, nLogs, nReq, pc, req, pending, failed, gets, src, clean, rng, auth, ov>>

\* showSetVideo, the set is absent or has no formVideo: 404 and return.
ShowNotFound ==
    /\ pc = "show"
    /\ phase = "Validating"
    /\ FindSetVideo(req.doc, req.e, req.s) = {}
    /\ res' = Response(404, "empty")
    /\ phase' = "NotFound"
    /\ UNCHANGED <<users, logs, blobs, nLogs, nReq, pc, req, pending, failed, gets, src, clean, rng, auth, ov>>

\* showSetVideo, the set has formVideo: the headers are written, S3.getObject
\* is called with the request's Range and the stream is piped to the response.
ShowStreams ==
    /\ pc = "show"
    /\ phase = "Validating"
    /\ FindSetVideo(req.doc, req.e, req.s) # {}
    /\ LET video == The(FindSetVideo(req.doc, req.e, req.s)) IN
        /\ res' = StreamHeaders(req.log, req.e, req.s, video, req.range)
        /\ gets' = gets \cup
                {[Key |-> videoKey(req.user, req.log, req.e, req.s, video.extension),
                  Range |-> req.range]}
    /\ src' = "open"
    /\ phase' = "Streaming"
    /\ UNCHANGED <<users, logs, blobs, nLogs, nReq, pc, req, pending, failed, clean, rng, auth, ov>>

\* The 404 has been sent.
ShowNotFoundSent ==
    /\ pc = "show"
    /\ phase = "NotFound"
    /\ phase' = "Complete"
    /\ pc' = "idle"
    /\ UNCHANGED <<users, logs, blobs, nLogs, nReq, req, pending, failed, res, gets, src, clean, rng, auth, ov>>

\* pipeline(src, res, callback): the stream ends and pipeline destroys src.
PipelineEnds ==
    /\ pc = "show"
    /\ phase = "Streaming"
    /\ \E g \in gets : g.Key \in DOMAIN blobs
    /\ src' = "destroyed"
    /\ phase' = "Complete"
    /\ pc' = "idle"
    /\ UNCHANGED <<users, logs, blobs, nLogs, nReq, req, pending, failed, res, gets, clean, rng, auth, ov>>

\* A faulty variant of PipelineFails: src.pipe(res) in place of pipeline, which leaves
\* src open when the response fails.
PipelineFailsLeaks ==
    /\ pc = "show"
    /\ phase = "Streaming"
    /\ res' = [res EXCEPT !.body = "aborted"]
    /\ phase' = "Complete"
    /\ pc' = "idle"
    /\ clean' = FALSE
    /\ UNCHANGED <<users, logs, blobs, nLogs, nReq, req, pending, failed, gets, src, rng, auth, ov>>

\* pipeline(src, res, callback): the stream fails (no such key, a broken
\* connection); pipeline destroys src and the callback ignores the error.
PipelineFails ==
    /\ pc = "show"
    /\ phase = "Streaming"
    /\ res' = [res EXCEPT !.body = "aborted"]
    /\ src' = "destroyed"
    /\ phase' = "Complete"
    /\ pc' = "idle"
    /\ clean' = FALSE
    /\ UNCHANGED <<users, logs, blobs, nLogs, nReq, req, pending, failed, gets, rng, auth, ov>>

\* ------------------------------------------------------------ specification

Next ==
    \/ \E u \in Users : CreateInvalid(u)
    \/ \E u \in Users : CreateSaved(u)
    \/ \E u \in Users : CreateSaveFails(u)
    \/ \E u \in Users, l \in 1..MaxLogs, files \in Batches : UploadBegin(u, l, files)
    \/ UploadFileStored
    \/ UploadFileFails
    \/ UploadSetVideoSaved
    \/ UploadSetVideoThrows
    \/ UploadSetVideoSaveFails
    \/ \E u \in Users, l \in 1..MaxLogs : DestroyBegin(u, l)
    \/ DestroyVideosDeleted
    \/ DestroyVideosFails
    \/ DestroyUserSaved
    \/ DestroyUserSaveFails
    \/ DestroyLogDeleted
    \/ DestroyLogDeleteFails
    \/ DestroyResponds
    \/ DestroyRejects
    \/ \E u \in Users, l \in 1..MaxLogs, p \in SetParams : DestroySetVideoNothing(u, l, p[1], p[2])
    \/ \E u \in Users, l \in 1..MaxLogs, p \in SetParams : DestroySetVideoDeleted(u, l, p[1], p[2])
    \/ \E u \in Users, l \in 1..MaxLogs, p \in SetParams : DestroySetVideoFails(u, l, p[1], p[2])
    \/ \E u \in Users, l \in 1..MaxLogs, p \in SetParams, range \in RangeInputs :
            ShowBegin(u, l, p[1], p[2], range)
    \/ ShowNotFound
    \/ ShowStreams
    \/ ShowNotFoundSent
    \/ PipelineEnds
    \/ PipelineFails

Spec == Init /\ [][Next]_vars

\* The handler body of showSetVideo runs to its first await without yielding:
\* a request that has passed the middleware is validated.  A stream that was
\* opened ends or fails (the sockets time out), and pipeline then calls back.
FairSpec ==
    /\ Spec
    /\ WF_vars(ShowNotFound)
    /\ WF_vars(ShowStreams)
    /\ WF_vars(PipelineEnds \/ PipelineFails)

\* ------------------------------------------- the Range-header specification

\* Number.prototype.toString: the decimal digits of a natural number.
RECURSIVE Digits(_)
Digits(n) == IF n < 10 THEN <<DigitChars[n + 1]>> ELSE Digits(n \div 10) \o <<DigitChars[(n % 10) + 1]>>

\* The Range headers of the specification: bytes=S-E, bytes=S- and bytes=-N.
RangeHeaders ==
    { <<"bytes=">> \o Digits(S) \o <<"-">> \o Digits(E) : S \in 0..MaxSize, E \in 0..MaxSize }
    \cup { <<"bytes=">> \o Digits(S) \o <<"-">> : S \in 0..MaxSize }
    \cup { <<"bytes=", "-">> \o Digits(N) : N \in 1..MaxSize }

\* A set with a formVideo of every size, and a request with every Range header.
InitRange ==
    /\ MainInit
    /\ auth = NoAuth
    /\ ov = NoOv
    /\ rng \in { [total |-> t, range |-> r, done |-> FALSE, res |-> NoResponse, sent |-> 0] :
                    t \in 1..MaxSize, r \in RangeHeaders }

\* S3.getObject({Key, Range}).createReadStream() for an object of size bytes:
\* the number of bytes the stream delivers.  first-last is cut at the end of
\* the object, first- runs to the end, -suffix is the last suffix bytes; a
\* range that starts past the end is refused (the stream fails); a range with
\* first > last is not a range and the whole object is sent.
GetObjectLength(size, range) ==
    LET bytes == SplitDash(StripBytes(range))
        first == bytes[1]
        last == IF Len(bytes) >= 2 THEN bytes[2] ELSE <<>>
    IN  IF first = <<>>
        THEN (IF ParseDigits(last, 0) = 0 THEN 0
              ELSE IF ParseDigits(last, 0) > size THEN size ELSE ParseDigits(last, 0))
        ELSE IF last # <<>> /\ ParseDigits(first, 0) > ParseDigits(last, 0) THEN size
        ELSE IF ParseDigits(first, 0) >= size THEN 0
        ELSE IF last = <<>> \/ ParseDigits(last, 0) >= size THEN size - ParseDigits(first, 0)
        ELSE ParseDigits(last, 0) - ParseDigits(first, 0) + 1

\* showSetVideo answers the request: the headers it writes before it streams,
\* and the bytes S3 delivers for the Range it was handed.
RangeRequest ==
    /\ ~rng.done
    /\ rng' = [rng EXCEPT !.done = TRUE,
                          !.res = StreamHeaders(1, "e1", "s1",
                                    [size |-> rng.total, extension |-> "mp4"], rng.range),
                          !.sent = GetObjectLength(rng.total, rng.range)]
    /\ UNCHANGED <<mainVars, auth, ov>>

NextRange == RangeRequest

SpecRange == InitRange /\ [][NextRange]_vars

\* -------------------------------------------- the authController specification

Emails == {"test@test.com", "test@gmail.com"}
Passwords == {"password", "asdfdddd"}
GoogleIds == {"mock google id", "fake google id"}
AppleIds == {"apple id"}
IdTokens == {"valid token", "invalid token!", "other audience"}

GOOGLE_CLIENT_ID == "client id"

\* The user records the collection may start with: a password, a googleId
\* and an appleId, each of which may be missing (""), at least one present.
AccountInputs ==
    { a \in [email : Emails, password : {"", "password"}, googleId : GoogleIds \cup {""},
             appleId : AppleIds \cup {""}, confirmed : BOOLEAN] :
        a.password # "" \/ a.googleId # "" \/ a.appleId # "" }

\* No two records share an email, a googleId or an appleId.
DistinctAccounts(us) ==
    \A i, j \in 1..Len(us) :
        i # j => /\ us[i].email # us[j].email
                 /\ us[i].googleId = "" \/ us[i].googleId # us[j].googleId
                 /\ us[i].appleId = "" \/ us[i].appleId # us[j].appleId

AccountLists ==
    { us \in {<<>>} \cup { <<a>> : a \in AccountInputs }
                \cup { <<a, b>> : a \in AccountInputs, b \in AccountInputs } :
        DistinctAccounts(us) }

\* User.findOne({field: value}): the position of the first match, 0 for null.
FindOne(us, field, value) ==
    LET m == { i \in 1..Len(us) : us[i][field] = value }
    IN  IF m = {} THEN 0 ELSE CHOOSE i \in m : \A j \in m : i <= j

\* user.authenticate(password): the password is the stored one.
authenticate(user, password) == user.password # "" /\ user.password = password

AuthResponse(status, message) ==
    [status |-> status, message |-> message, user |-> "", cookie |-> 0]

\* setCookieToken(res, user.token); res.status(status).json({user: {email}})
\* the cookie holds the position of the user the token is for.
TokenResponse(status, us, i) ==
    [status |-> status, message |-> "", user |-> us[i].email, cookie |-> i]

\* A faulty variant of login: confirmed is looked at before the password.
loginConfirmedFirst(us, email, password) ==
    LET i == FindOne(us, "email", email)
    IN  IF i # 0 /\ us[i].googleId # ""
        THEN AuthResponse(403, "Please sign in with Google")
        ELSE IF i # 0 /\ ~us[i].confirmed
        THEN AuthResponse(401, "Please verify your email address to login")
        ELSE IF i = 0 \/ ~authenticate(us[i], password)
        THEN AuthResponse(401, "Invalid email or password")
        ELSE TokenResponse(200, us, i)

\* login(req, res): the response for req.body = {email, password}.
login(us, email, password) ==
    LET i == FindOne(us, "email", email)
    IN  IF i # 0 /\ us[i].googleId # ""
        THEN AuthResponse(403, "Please sign in with Google")
        ELSE IF i = 0 \/ ~authenticate(us[i], password)
        THEN AuthResponse(401, "Invalid email or password")
        ELSE IF ~us[i].confirmed
        THEN AuthResponse(401, "Please verify your email address to login")
        ELSE TokenResponse(200, us, i)

\* client.verifyIdToken(...).getPayload(): the payload, none when the library
\* rejects the token.
Payload(idToken) ==
    CASE idToken = "valid token" ->
            {[email |-> "test@gmail.com", sub |-> "mock google id", aud |-> GOOGLE_CLIENT_ID]}
      [] idToken = "other audience" ->
            {[email |-> "test@gmail.com", sub |-> "mock google id", aud |-> "another client"]}
      [] OTHER -> {}

\* verifyGoogleIdToken(idToken): {email, googleId}, none when it throws.
verifyGoogleIdToken(idToken) ==
    LET payload == Payload(idToken)
    IN  IF payload = {} \/ The(payload).aud # GOOGLE_CLIENT_ID THEN {}
        ELSE {[email |-> The(payload).email, googleId |-> The(payload).sub]}

\* A faulty variant of googleLogin: the lookup by email is left out.
googleLoginNoEmailLookup(us, idToken, saved) ==
    LET verified == verifyGoogleIdToken(idToken)
        failed401 == [users |-> us, res |-> AuthResponse(401, "Authentication failed")]
    IN  IF verified = {} THEN failed401
        ELSE LET googleId == The(verified).googleId
                 email == The(verified).email
                 i == FindOne(us, "googleId", googleId)
             IN  IF i # 0 THEN [users |-> us, res |-> TokenResponse(200, us, i)]
                 ELSE IF ~saved THEN failed401
                 ELSE LET created == Append(us, [email |-> email, password |-> "",
                                                 googleId |-> googleId, appleId |-> "",
                                                 confirmed |-> TRUE])
                      IN  [users |-> created, res |-> TokenResponse(201, created, Len(created))]

\* googleLogin(req, res) for req.body = {idToken}: the collection it leaves
\* and the response; saved is whether user.save() resolves where it is called.
googleLogin(us, idToken, saved) ==
    LET verified == verifyGoogleIdToken(idToken)
        failed401 == [users |-> us, res |-> AuthResponse(401, "Authentication failed")]
    IN  IF verified = {} THEN failed401
        ELSE LET googleId == The(verified).googleId
                 email == The(verified).email
                 i == FindOne(us, "googleId", googleId)
                 j == FindOne(us, "email", email)
             IN  IF i # 0 THEN [users |-> us, res |-> TokenResponse(200, us, i)]
                 ELSE IF ~saved THEN failed401
                 ELSE IF j # 0
                 THEN LET linked == [us EXCEPT ![j].googleId = googleId, ![j].confirmed = TRUE]
                      IN  [users |-> linked, res |-> TokenResponse(200, linked, j)]
                 ELSE LET created == Append(us, [email |-> email, password |-> "",
                                                 googleId |-> googleId, appleId |-> "",
                                                 confirmed |-> TRUE])
                      IN  [users |-> created, res |-> TokenResponse(201, created, Len(created))]

\* user.save() is reached: the token is valid and no user has its googleId.
SaveReached(us, idToken) ==
    /\ verifyGoogleIdToken(idToken) # {}
    /\ FindOne(us, "googleId", The(verifyGoogleIdToken(idToken)).googleId) = 0

InitAuth ==
    /\ MainInit
    /\ rng = NoRng
    /\ ov = NoOv
    /\ auth \in { [users |-> us, req |-> NoAuthRequest, res |-> NoAuthResponse] :
                    us \in AccountLists }

\* POST /auth/login
Login(email, password) ==
    /\ auth' = [users |-> auth.users,
                req |-> [NoAuthRequest EXCEPT !.kind = "login", !.email = email,
                            !.password = password, !.before = auth.users],
                res |-> login(auth.users, email, password)]
    /\ UNCHANGED <<mainVars, rng, ov>>

\* POST /auth/google, user.save() resolving where it is called.
GoogleLogin(idToken) ==
    /\ auth' = [users |-> googleLogin(auth.users, idToken, TRUE).users,
                req |-> [NoAuthRequest EXCEPT !.kind = "google", !.idToken = idToken,
                            !.saved = TRUE, !.before = auth.users],
                res |-> googleLogin(auth.users, idToken, TRUE).res]
    /\ UNCHANGED <<mainVars, rng, ov>>

\* POST /auth/google, user.save() rejecting: the catch answers 401.
GoogleLoginSaveFails(idToken) ==
    /\ SaveReached(auth.users, idToken)
    /\ auth' = [users |-> googleLogin(auth.users, idToken, FALSE).users,
                req |-> [NoAuthRequest EXCEPT !.kind = "google", !.idToken = idToken,
                            !.before = auth.users],
                res |-> googleLogin(auth.users, idToken, FALSE).res]
    /\ UNCHANGED <<mainVars, rng, ov>>

NextAuth ==
    \/ \E email \in Emails \cup {"john@gmail.com"}, password \in Passwords : Login(email, password)
    \/ \E idToken \in IdTokens : GoogleLogin(idToken)
    \/ \E idToken \in IdTokens : GoogleLoginSaveFails(idToken)

SpecAuth == InitAuth /\ [][NextAuth]_vars

\* ------------------------------------- the overlapping-destroy specification

\* Requests in flight at once.
MaxOverlap == 2
\* Logs the user owns at the start.
MaxOwned == 3

\* The stored list after n creates: each id was unshifted, the newest is first.
RECURSIVE Unshifted(_)
Unshifted(n) == IF n = 0 THEN <<>> ELSE <<n>> \o Unshifted(n - 1)

\* The user owns 1..n logs, each with its record.  The bucket is not part of
\* this specification: deleteAllSetVideos shows in it by whether it resolves.
InitOverlap ==
    /\ MainInit
    /\ rng = NoRng
    /\ auth = NoAuth
    /\ ov \in { [list |-> Unshifted(n), logs |-> 1..n,
                 r |-> [k \in 1..MaxOverlap |-> NoOvRequest]] : n \in 1..MaxOwned }

\* DELETE /workoutLogs/:id arrives, the requests numbered as they arrive:
\* setCurrentUser reads the user, and validateWorkoutLogId answers with an
\* error unless the id is in the list that was read.
OvLoadUser(k, l) ==
    /\ ov.r[k].pc = "idle"
    /\ \A j \in 1..(k - 1) : ov.r[j].pc # "idle"
    /\ ov' = [ov EXCEPT
            !.r[k] =  IF HasId(ov.list, l)
                      THEN [@ EXCEPT !.pc = "validated", !.log = l, !.loaded = ov.list,
                                     !.workoutLogs = ov.list]
                      ELSE [@ EXCEPT !.pc = "answered", !.log = l, !.loaded = ov.list,
                                     !.workoutLogs = ov.list, !.status = 404]]
    /\ UNCHANGED <<mainVars, rng, auth>>

\* setCurrentWorkoutLog does not find the log: 404.
OvLogMissing(k) ==
    /\ ov.r[k].pc = "validated"
    /\ ov.r[k].log \notin ov.logs
    /\ ov' = [ov EXCEPT !.r[k].pc = "answered", !.r[k].status = 404]
    /\ UNCHANGED <<mainVars, rng, auth>>

\* setCurrentWorkoutLog finds the log and destroy runs up to Promise.all:
\* findIndex, splice, and the operations start.
OvDestroyBegin(k) ==
    /\ ov.r[k].pc = "validated"
    /\ ov.r[k].log \in ov.logs
    /\ ov' = [ov EXCEPT
            !.r[k].pc = "destroying",
            !.r[k].workoutLogs =
                Splice1(ov.r[k].loaded, FindIndex(ov.r[k].loaded, ov.r[k].log)),
            !.r[k].pending = {"userSave", "logDelete"}]
    /\ UNCHANGED <<mainVars, rng, auth>>

\* One operation of request k settles.
OvSettled(k, op, ok) ==
    [ov EXCEPT !.r[k].pending = @ \ {op},
               !.r[k].failed = (@ \/ ~ok)]

\* user.save() of request k resolves: its spliced list is stored.
OvUserSaved(k) ==
    /\ ov.r[k].pc = "destroying" /\ "userSave" \in ov.r[k].pending
    /\ ov' = [OvSettled(k, "userSave", TRUE) EXCEPT !.list = ov.r[k].workoutLogs]
    /\ UNCHANGED <<mainVars, rng, auth>>

\* workoutLogToDelete.delete() of request k resolves.
OvLogDeleted(k) ==
    /\ ov.r[k].pc = "destroying" /\ "logDelete" \in ov.r[k].pending
    /\ ov' = [OvSettled(k, "logDelete", TRUE) EXCEPT !.logs = @ \ {ov.r[k].log}]
    /\ UNCHANGED <<mainVars, rng, auth>>

\* user.save() or workoutLogToDelete.delete() of request k rejects.
OvOperationFails(k, op) ==
    /\ ov.r[k].pc = "destroying" /\ op \in ov.r[k].pending
    /\ ov' = OvSettled(k, op, FALSE)
    /\ UNCHANGED <<mainVars, rng, auth>>

\* deleteAllSetVideos has resolved as well, Promise.all of request k resolves:
\* res.json(id).
OvResponds(k) ==
    /\ ov.r[k].pc = "destroying" /\ ov.r[k].pending = {} /\ ~ov.r[k].failed
    /\ ov' = [ov EXCEPT !.r[k].pc = "answered", !.r[k].status = 200]
    /\ UNCHANGED <<mainVars, rng, auth>>

\* Promise.all of request k rejects, an operation or deleteAllSetVideos having
\* rejected: no response.
OvRejects(k) ==
    /\ ov.r[k].pc = "destroying" /\ ov.r[k].pending = {}
    /\ ov' = [ov EXCEPT !.r[k].pc = "unanswered"]
    /\ UNCHANGED <<mainVars, rng, auth>>

NextOverlap ==
    \/ \E k \in 1..MaxOverlap, l \in 1..MaxOwned : OvLoadUser(k, l)
    \/ \E k \in 1..MaxOverlap : OvLogMissing(k)
    \/ \E k \in 1..MaxOverlap : OvDestroyBegin(k)
    \/ \E k \in 1..MaxOverlap : OvUserSaved(k)
    \/ \E k \in 1..MaxOverlap : OvLogDeleted(k)
    \/ \E k \in 1..MaxOverlap, op \in {"userSave", "logDelete"} : OvOperationFails(k, op)
    \/ \E k \in 1..MaxOverlap : OvResponds(k)
    \/ \E k \in 1..MaxOverlap : OvRejects(k)

SpecOverlap == InitOverlap /\ [][NextOverlap]_vars

\* ------------------------------------------------------------------- claims

\* The files the upload middleware has stored for the request so far.
FilesStored == req.i - 1

\* Every file name of the batch has exactly three dot-separated segments.
WellFormed(files) == \A i \in 1..Len(files) : Len(SplitDot(files[i].originalname)) = 3

\* Some file of the batch names an exercise/set pair the document does not hold.
NamesMissingSet(files, doc) ==
    \E i \in 1..Len(files) :
        LET parts == SplitDot(files[i].originalname)
        IN  ~HasSet(doc, Part(parts, 1), Part(parts, 2))

InList(list, id) == \E i \in 1..Len(list) : list[i] = id

\* Every formVideo of a stored log has its blob.
MetadataHasBlob ==
    \A l \in DOMAIN logs : \A p \in SetsWithVideo(logs[l]) :
        \E u \in Users :
            videoKey(u, l, p[1], p[2], The(logs[l][p[1]][p[2]]).extension) \in DOMAIN blobs

\* Every blob is the one some formVideo of a stored log derives.
BlobHasMetadata ==
    \A k \in DOMAIN blobs :
        /\ k[2] \in DOMAIN logs
        /\ \E p \in SetsWithVideo(logs[k[2]]) :
            k = videoKey(k[1], k[2], p[1], p[2], The(logs[k[2]][p[1]][p[2]]).extension)

\* C1 (as claimed): in every quiescent state reached by requests that were all
\* answered without error, a set carries formVideo if and only if a blob
\* exists at the key derived from it.
C1_MetadataIffBlob ==
    (pc = "idle" /\ clean) => (MetadataHasBlob /\ BlobHasMetadata)

\* C2 (as claimed): during and after a destroy request, the log record is
\* never gone while a blob at the derived key of one of its sets that carried
\* formVideo still exists.
C2_RecordOutlivesBlobs ==
    (req.kind = "destroy" /\ req.log \notin DOMAIN logs)
        => DerivedKeys(req.user, req.log, req.doc) \cap DOMAIN blobs = {}

\* C3: when destroy has answered 200, no blob is left at the derived key of
\* any set of the log that carried formVideo, the log record is gone and the
\* user's stored workoutLogs list does not hold the id.
C3_DestroyAnswered ==
    (req.kind = "destroy" /\ pc = "idle" /\ res.status = 200)
        => /\ DerivedKeys(req.user, req.log, req.doc) \cap DOMAIN blobs = {}
           /\ req.log \notin DOMAIN logs
           /\ ~InList(users[req.user], req.log)

\* C3 witness: destroy has answered 200 for a log with two sets carrying a video.
C3_Witness ==
    /\ req.kind = "destroy" /\ pc = "idle" /\ res.status = 200
    /\ Cardinality(SetsWithVideo(req.doc)) = 2

\* C4 (as claimed, with any error status accepted for the client error): a
\* videoUpload request with a file name that has not exactly three segments
\* writes no blob and changes no formVideo, and is answered with an error.
C4_MalformedRejected ==
    (req.kind = "upload" /\ ~WellFormed(req.files))
        => /\ FilesStored = 0
           /\ req.log \in DOMAIN logs /\ logs[req.log] = req.doc
           /\ (pc = "idle" => res.status >= 400)

\* C5 (as claimed): a videoUpload request of well-formed names of which one
\* names a pair the log does not hold ends with an error response and with
\* the stored log unchanged.
C5_MissingSetRejected ==
    (req.kind = "upload" /\ pc = "idle" /\ WellFormed(req.files)
        /\ NamesMissingSet(req.files, req.doc))
        => /\ res.status >= 400
           /\ req.log \in DOMAIN logs /\ logs[req.log] = req.doc

\* C6: when the upload of a file of the batch has failed, the request ends
\* with an error response, not the 200, and the stored log is the one the
\* request loaded: no formVideo of the batch is saved.
C6_UploadFailureSurfaced ==
    (req.kind = "upload" /\ pc = "idle" /\ FilesStored < Len(req.files))
        => /\ res.status >= 500
           /\ req.log \in DOMAIN logs /\ logs[req.log] = req.doc

\* C6 witness: the first file of a batch of two was stored and the second failed.
C6_Witness ==
    /\ req.kind = "upload" /\ pc = "idle"
    /\ Len(req.files) = 2 /\ FilesStored = 1

\* C7: a showSetVideo request whose set is absent or has no formVideo issues
\* no S3.getObject and is answered 404 with an empty body.
C7_NoVideoNotFound ==
    (req.kind = "show" /\ FindSetVideo(req.doc, req.e, req.s) = {})
        => /\ gets = {}
           /\ (phase \in {"NotFound", "Complete"} => res = Response(404, "empty"))

\* C7 witness: a request for a set that exists and has no formVideo is complete.
C7_Witness ==
    /\ req.kind = "show" /\ phase = "Complete"
    /\ HasSet(req.doc, req.e, req.s) /\ req.doc[req.e][req.s] = {}

\* C8: for the header bytes=S-E with 0 <= S <= E < totalSize the response has
\* status 206, Content-Length E-S+1 and Content-Range bytes S-E/totalSize; for
\* bytes=S- the same with E = totalSize-1.
C8_RangeResponse ==
    rng.done =>
        \A S \in 0..MaxSize, E \in 0..MaxSize :
            (S <= E /\ E < rng.total
                /\ \/ rng.range = <<"bytes=">> \o Digits(S) \o <<"-">> \o Digits(E)
                   \/ (E = rng.total - 1 /\ rng.range = <<"bytes=">> \o Digits(S) \o <<"-">>))
            => /\ rng.res.status = 206
               /\ "Content-Length" \in DOMAIN rng.res.headers
               /\ rng.res.headers["Content-Length"] = Num(E - S + 1)
               /\ "Content-Range" \in DOMAIN rng.res.headers
               /\ rng.res.headers["Content-Range"] =
                        [start |-> Num(S), end |-> Num(E), total |-> rng.total]

\* C8 witness: bytes=2-10 of a video of 11 bytes has been answered.
C8_Witness ==
    /\ rng.done /\ rng.total = 11
    /\ rng.range = <<"bytes=", "2", "-", "1", "0">>

\* A showSetVideo request that has opened the stream.
ShowStreamed ==
    /\ req.kind = "show"
    /\ phase = "Streaming" \/ (phase = "Complete" /\ res.status # 404)

\* The steps of a showSetVideo request.
PhaseEdges ==
    { <<"none", "Validating">>, <<"Complete", "Validating">>, <<"Complete", "none">>,
      <<"Validating", "NotFound">>, <<"Validating", "Streaming">>,
      <<"NotFound", "Complete">>, <<"Streaming", "Complete">> }

\* C9: for a set with formVideo the status is 206 exactly when the request has
\* a Range header and 200 exactly when it has none; a request enters Validating
\* once, leaves it for NotFound or Streaming only, and does leave it.
C9_ShowStateMachine ==
    /\ [](ShowStreamed => /\ res.status = 206 <=> req.range # <<>>
                          /\ res.status = 200 <=> req.range = <<>>)
    /\ [][phase' # phase => <<phase, phase'>> \in PhaseEdges]_vars
    /\ (phase = "Validating") ~> (phase \in {"NotFound", "Streaming"})

\* C9 witness: a request with a Range header is streaming.
C9_Witness == ShowStreamed /\ phase = "Streaming" /\ req.range # <<>>

\* C10 (as claimed): every streaming response, 200 or 206, has a
\* Content-Disposition of type attachment with the display file name and the
\* Content-Type of the stored extension.
C10_AttachmentAlways ==
    ShowStreamed =>
        /\ "Content-Disposition" \in DOMAIN res.headers
        /\ res.headers["Content-Disposition"] =
                [type |-> "attachment", filename |-> DisplayFileName(req.log, req.e, req.s)]
        /\ "Content-Type" \in DOMAIN res.headers
        /\ res.headers["Content-Type"] = MimeType(The(req.doc[req.e][req.s]).extension)

\* C10 (amended): every streaming response has the Content-Type of the stored
\* extension; the 200 response has Content-Disposition attachment with the
\* display file name, the 206 response has Content-Disposition inline.
C10_AttachmentUnlessRange ==
    ShowStreamed =>
        /\ "Content-Type" \in DOMAIN res.headers
        /\ res.headers["Content-Type"] = MimeType(The(req.doc[req.e][req.s]).extension)
        /\ "Content-Disposition" \in DOMAIN res.headers
        /\ res.status = 200 =>
                res.headers["Content-Disposition"] =
                    [type |-> "attachment", filename |-> DisplayFileName(req.log, req.e, req.s)]
        /\ res.status = 206 =>
                res.headers["Content-Disposition"] = [type |-> "inline", filename |-> <<>>]

\* C10 witness: a 206 response for a video stored as mov.
C10_Witness ==
    /\ ShowStreamed /\ res.status = 206
    /\ The(req.doc[req.e][req.s]).extension = "mov"

\* C11: a showSetVideo request that is streaming does complete, and a complete
\* request has no open read stream, whether the stream ended or failed; while
\* it streams, the status is not changed and S3.getObject is not called again.
C11_StreamCompletes ==
    /\ (req.kind = "show" /\ phase = "Streaming") ~> (phase = "Complete")
    /\ []((req.kind = "show" /\ phase = "Complete") => src # "open")
    /\ []((req.kind = "show" /\ phase = "Streaming") => (src = "open" /\ Cardinality(gets) = 1))
    /\ [][phase = "Streaming" => (res'.status = res.status /\ gets' = gets)]_vars

\* C11 witness: a stream that failed is complete and its read stream destroyed.
C11_Witness ==
    /\ req.kind = "show" /\ phase = "Complete"
    /\ res.body = "aborted" /\ src = "destroyed"

\* C12: a destroySetVideo request for a set that is absent or has no formVideo
\* is answered 404 with an empty body and leaves the bucket and the logs as
\* they were; one for a set with formVideo, once deleteSetVideo has resolved,
\* is answered 200 with {setId, exerciseId}, no blob is left at the derived
\* key and the stored log has no formVideo on the set.
C12_DeleteSetVideo ==
    /\ [][(req'.kind = "destroySetVideo" /\ nReq' # nReq
                /\ FindSetVideo(req'.doc, req'.e, req'.s) = {})
            => (res' = Response(404, "empty") /\ blobs' = blobs /\ logs' = logs)]_vars
    /\ []((req.kind = "destroySetVideo" /\ FindSetVideo(req.doc, req.e, req.s) # {}
                /\ res.status # 0)
            => /\ res = Response(200, "set")
               /\ videoKey(req.user, req.log, req.e, req.s,
                        The(FindSetVideo(req.doc, req.e, req.s)).extension) \notin DOMAIN blobs
               /\ req.log \in DOMAIN logs
               /\ FindSetVideo(logs[req.log], req.e, req.s) = {})

\* C12 witness: the video of a set was deleted while another set of the log
\* keeps its video.
C12_Witness ==
    /\ req.kind = "destroySetVideo" /\ res.status = 200
    /\ FindSetVideo(req.doc, req.e, req.s) # {}
    /\ req.log \in DOMAIN logs /\ SetsWithVideo(logs[req.log]) # {}

\* The records of a collection that have the email.
WithEmail(us, email) == { i \in 1..Len(us) : us[i].email = email }

C14_AppleOnly ==
    LET us == auth.req.before
        verified == verifyGoogleIdToken(auth.req.idToken)
        apple403 == auth.res.status = 403 /\ auth.res.message = "Please sign in with Apple"
    IN  /\ (auth.req.kind = "login"
                /\ \E i \in WithEmail(us, auth.req.email) : us[i].appleId # "")
            => apple403
        /\ (auth.req.kind = "google" /\ verified # {}
                /\ \E i \in WithEmail(us, The(verified).email) : us[i].appleId # "")
            => (apple403 /\ auth.users = us)

Without(list, id) == SelectSeq(list, LAMBDA x : x # id)

C17_LengthMatchesStream ==
    (rng.done /\ rng.res.status = 206)
        => rng.res.headers["Content-Length"] = Num(rng.sent)

\* C18 (as claimed): when create has answered 201 the id of the new log is
\* first in the creating user's stored workoutLogs list, and when it has
\* answered 406 no workout log record of the request is stored.
C18_CreateAllOrNothing ==
    /\ (req.kind = "create" /\ res.status = 201)
            => /\ req.log \in DOMAIN logs
               /\ users[req.user] # <<>> /\ Head(users[req.user]) = req.log
    /\ (req.kind = "create" /\ res.status = 406) => req.log \notin DOMAIN logs

====
